---- MODULE Spec2Model ----
(***************************************************************************)
(* Model of src/code/text_binarization.py: document binarization with OFF  *)
(* center-surround cells (get_off_center_surround, binarize_text).         *)
(*                                                                         *)
(* Arrays are functions from pixel coordinates <<row, col>> to values.     *)
(* Floating point values are modelled as exact rationals <<n, d>> (d > 0,  *)
(* lowest terms); the IEEE value NaN produced by 0/0 is <<0, 0>>.          *)
(***************************************************************************)
EXTENDS Integers, Sequences, FiniteSets, TLC

\* ------------------------------------------------------------------------
\* Bounds of the model
\* ------------------------------------------------------------------------
\* width of the one-row input images of the pipeline
ImgW == 3
\* the longest list of scales passed as center_surround_sigma
MaxScales == 2
\* the largest integer passed as remove_elements_smaller_than
MaxMinSize == 2
\* height and width of the masks the filter step is applied to on its own
GridH == 2
GridW == 3

\* ------------------------------------------------------------------------
\* Program constants
\* ------------------------------------------------------------------------
RANGE_MAX == 1
RANGE_MIN == 0
\* nbins of skimage.filters.threshold_otsu as called (its default)
NBINS == 256
\* number of plt.show() calls of the verbose block
SHOW_CALLS == 5

\* ------------------------------------------------------------------------
\* Rational arithmetic with NaN (numpy float semantics of + - * / < >)
\* ------------------------------------------------------------------------
Abs(x) == IF x < 0 THEN -x ELSE x

RECURSIVE GCD(_, _)
GCD(a, b) == IF b = 0 THEN a ELSE GCD(b, a % b)

NaN == <<0, 0>>
IsNaN(a) == a[2] = 0

\* n/d in lowest terms with a positive denominator; 0/0 is NaN
Rat(n, d) ==
    IF d = 0 THEN NaN
    ELSE LET g == GCD(Abs(n), Abs(d))
             s == IF d < 0 THEN -1 ELSE 1
         IN  <<(s * n) \div g, (s * d) \div g>>

FromInt(k) == <<k, 1>>

RAdd(a, b) ==
    IF IsNaN(a) \/ IsNaN(b) THEN NaN
    ELSE LET g == GCD(a[2], b[2])
         IN  Rat(a[1] * (b[2] \div g) + b[1] * (a[2] \div g), (a[2] \div g) * b[2])

RNeg(a) == IF IsNaN(a) THEN NaN ELSE <<-a[1], a[2]>>

RSub(a, b) == RAdd(a, RNeg(b))

RMul(a, b) ==
    IF IsNaN(a) \/ IsNaN(b) THEN NaN
    ELSE LET g1 == GCD(Abs(a[1]), b[2])
             g2 == GCD(Abs(b[1]), a[2])
             h1 == IF g1 = 0 THEN 1 ELSE g1
             h2 == IF g2 = 0 THEN 1 ELSE g2
         IN  Rat((a[1] \div h1) * (b[1] \div h2), (a[2] \div h2) * (b[2] \div h1))

\* numpy true division; x/0 is NaN when x = 0.  Both divisions of the program
\* have a zero numerator whenever their denominator is zero: in
\* (1 + s) d / (s + d) with s >= 0 (see SurroundsNonNegative) and d >= 0,
\* s + d = 0 forces d = 0, and in (x - min) / (max - min), max = min forces
\* x = min; so no division yields an infinity.
RDiv(a, b) ==
    IF IsNaN(a) \/ IsNaN(b) THEN NaN
    ELSE IF b[1] = 0 THEN NaN
    ELSE RMul(a, IF b[1] < 0 THEN <<-b[2], -b[1]>> ELSE <<b[2], b[1]>>)

\* n1/d1 < n2/d2 for d1, d2 > 0, by integer parts and then the remainders
\* (no product of numerators and denominators is formed)
RECURSIVE FracLess(_, _, _, _)
FracLess(n1, d1, n2, d2) ==
    LET q1 == n1 \div d1
        q2 == n2 \div d2
        r1 == n1 % d1
        r2 == n2 % d2
    IN  IF q1 # q2 THEN q1 < q2
        ELSE IF r2 = 0 THEN FALSE
        ELSE IF r1 = 0 THEN TRUE
        ELSE FracLess(d2, r2, d1, r1)

\* comparisons: every comparison with NaN is False
RLt(a, b) == ~IsNaN(a) /\ ~IsNaN(b) /\ FracLess(a[1], a[2], b[1], b[2])
RGt(a, b) == RLt(b, a)
RLe(a, b) == ~IsNaN(a) /\ ~IsNaN(b) /\ ~FracLess(b[1], b[2], a[1], a[2])

\* floor of a non-negative rational
RFloor(a) == a[1] \div a[2]

\* ------------------------------------------------------------------------
\* Arrays
\* ------------------------------------------------------------------------
\* an array whose elements are computed once (the comparison makes the
\* model checker evaluate and store every element of f)
Arr(f) == IF f = f THEN f ELSE f

Pixels == {1} \X (1..ImgW)
GridPixels == (1..GridH) \X (1..GridW)

NRows(ar) == LET P == DOMAIN ar IN CHOOSE r \in {p[1] : p \in P} : \A p \in P : p[1] <= r
NCols(ar) == LET P == DOMAIN ar IN CHOOSE c \in {p[2] : p \in P} : \A p \in P : p[2] <= c

HasNaN(ar) == \E p \in DOMAIN ar : IsNaN(ar[p])

\* ndarray.min() / ndarray.max(): NaN propagates
ArrMin(ar) ==
    IF HasNaN(ar) THEN NaN
    ELSE LET p == CHOOSE p \in DOMAIN ar : \A q \in DOMAIN ar : RLe(ar[p], ar[q])
         IN  ar[p]

ArrMax(ar) ==
    IF HasNaN(ar) THEN NaN
    ELSE LET p == CHOOSE p \in DOMAIN ar : \A q \in DOMAIN ar : RLe(ar[q], ar[p])
         IN  ar[p]

\* (ar - ar.min()) / (ar.max() - ar.min())
MinMaxNorm(ar) ==
    LET lo == ArrMin(ar)
        hi == ArrMax(ar)
    IN  Arr([p \in DOMAIN ar |-> RDiv(RSub(ar[p], lo), RSub(hi, lo))])


\* sum of f[x] over the finite set S
RECURSIVE RSum(_, _)
RSum(f, S) ==
    IF S = {} THEN FromInt(0)
    ELSE LET x == CHOOSE x \in S : TRUE IN RAdd(f[x], RSum(f, S \ {x}))

RECURSIVE ISum(_, _)
ISum(f, S) ==
    IF S = {} THEN 0
    ELSE LET x == CHOOSE x \in S : TRUE IN f[x] + ISum(f, S \ {x})

TrueCount(mask) == Cardinality({p \in DOMAIN mask : mask[p]})
FalseCount(mask) == Cardinality({p \in DOMAIN mask : ~mask[p]})

\* ~mask
Invert(mask) == Arr([p \in DOMAIN mask |-> ~mask[p]])

\* ------------------------------------------------------------------------
\* skimage.util.img_as_float on a uint8 array: [0,255] -> [0,1]
\* ------------------------------------------------------------------------
img_as_float(image_array) == Arr([p \in DOMAIN image_array |-> Rat(image_array[p], 255)])

\* ------------------------------------------------------------------------
\* skimage.filters.gaussian(image, sigma, mode='reflect')
\* sigma is given in tenths of a pixel.  The sampled Gaussian weights are
\* quantised: sigma 0.2 -> (1), sigma 0.5 -> (1 6 1)/8, sigma 1 ->
\* (1 4 6 4 1)/16; a sigma of 10 pixels or more is far wider than the images
\* of the model, where the reflected extension makes every weight of a line
\* equal (the line's mean).  sigma < 0 raises ValueError (see ScaleStep).
\* ------------------------------------------------------------------------
Kernel(sigma) ==
    IF sigma <= 2 THEN <<1>>
    ELSE IF sigma <= 5 THEN <<1, 6, 1>>
    ELSE <<1, 4, 6, 4, 1>>

IsWide(sigma) == sigma >= 100

\* mode='reflect' (d c b a | a b c d | d c b a): index i of a line of n samples
Reflect(i, n) ==
    LET j == (i - 1) % (2 * n)
    IN  IF j < n THEN j + 1 ELSE 2 * n - j

\* one pass of the separable filter along axis 0 (rows) or 1 (columns)
BlurAxis(ar, sigma, axis) ==
    LET n == IF axis = 0 THEN NRows(ar) ELSE NCols(ar)
        At(p, i) == IF axis = 0 THEN ar[<<i, p[2]>>] ELSE ar[<<p[1], i>>]
        Pos(p) == IF axis = 0 THEN p[1] ELSE p[2]
        K == Kernel(sigma)
        rad == (Len(K) - 1) \div 2
        tot == ISum(K, DOMAIN K)
    IN  IF IsWide(sigma)
        THEN Arr([p \in DOMAIN ar |->
                RDiv(RSum([i \in 1..n |-> At(p, i)], 1..n), FromInt(n))])
        ELSE Arr([p \in DOMAIN ar |->
                RDiv(RSum([k \in DOMAIN K |->
                             RMul(FromInt(K[k]), At(p, Reflect(Pos(p) + k - 1 - rad, n)))],
                          DOMAIN K),
                     FromInt(tot))])

gaussian(image, sigma) == BlurAxis(BlurAxis(image, sigma, 0), sigma, 1)

\* ------------------------------------------------------------------------
\* get_off_center_surround
\* ------------------------------------------------------------------------
\* ar[ar < lo] = lo (a NaN entry compares False and stays)
ClampBelow(ar, lo) ==
    Arr([p \in DOMAIN ar |-> IF RLt(ar[p], FromInt(lo)) THEN FromInt(lo) ELSE ar[p]])
ClampAbove(ar, hi) ==
    Arr([p \in DOMAIN ar |-> IF RGt(ar[p], FromInt(hi)) THEN FromInt(hi) ELSE ar[p]])

get_off_center_surround_never_inverting(center, surround, invert, min_max_norm) ==
    LET d == ClampBelow([p \in DOMAIN center |-> RSub(surround[p], center[p])], RANGE_MIN)
        q == Arr([p \in DOMAIN center |->
                RDiv(RMul(RAdd(FromInt(RANGE_MAX), surround[p]), d[p]),
                     RAdd(surround[p], d[p]))])
        t == ClampAbove(ClampBelow(q, RANGE_MIN), RANGE_MAX)
    IN  IF min_max_norm THEN MinMaxNorm(t) ELSE t

get_off_center_surround(center, surround, invert, min_max_norm) ==
    LET \* off_cs_cells = surround - center; off_cs_cells[off_cs_cells<RANGE_MIN] = RANGE_MIN
        d == ClampBelow([p \in DOMAIN center |-> RSub(surround[p], center[p])], RANGE_MIN)
        \* ((RANGE_MAX + surround) * off_cs_cells) / (surround + off_cs_cells)
        q == Arr([p \in DOMAIN center |->
                RDiv(RMul(RAdd(FromInt(RANGE_MAX), surround[p]), d[p]),
                     RAdd(surround[p], d[p]))])
        \* truncate within limits
        t == ClampAbove(ClampBelow(q, RANGE_MIN), RANGE_MAX)
        v == IF invert THEN Arr([p \in DOMAIN t |-> RSub(FromInt(RANGE_MAX), t[p])]) ELSE t
    IN  IF min_max_norm THEN MinMaxNorm(v) ELSE v

\* ------------------------------------------------------------------------
\* skimage.filters.threshold_otsu(image) on an image without NaN and with
\* more than one value (with NaN the histogram raises ValueError, which the
\* Threshold action models)
\* ------------------------------------------------------------------------
\* np.histogram(image, bins=NBINS) over [image.min(), image.max()]: the bin of
\* a value; the last bin is closed on the right
BinOf(v, lo, hi) ==
    IF v = hi THEN NBINS - 1
    ELSE RFloor(RDiv(RMul(FromInt(NBINS), RSub(v, lo)), RSub(hi, lo)))

\* bin_centers[k] = lo + (2k+1)(hi-lo)/(2 NBINS)
BinCenter(k, lo, hi) ==
    RAdd(lo, RDiv(RMul(FromInt(2 * k + 1), RSub(hi, lo)), FromInt(2 * NBINS)))

\* variance12[idx] = weight1[idx] * weight2[idx+1] * (mean1[idx] - mean2[idx+1])^2
\* as the fraction <<numerator, denominator>>, in units of the squared
\* half bin width (the same factor for every idx):
\*   w1 w2 (s1/w1 - s2/w2)^2 = (s1 w2 - s2 w1)^2 / (w1 w2)
Variance12(bins, idx) ==
    LET P == DOMAIN bins
        Lo == {p \in P : bins[p] <= idx}
        Hi == P \ Lo
        c == [p \in P |-> 2 * bins[p] + 1]
        w1 == Cardinality(Lo)
        w2 == Cardinality(Hi)
        s1 == ISum(c, Lo)
        s2 == ISum(c, Hi)
        x == s1 * w2 - s2 * w1
    IN  <<x * x, w1 * w2>>

\* np.argmax(variance12) over idx = 0 .. NBINS-2: the first index of the
\* largest value.  variance12 changes only at the index of an occupied bin
\* (weight1 and mean1 are constant from one occupied bin up to the next), and
\* the bin of image.min() is bin 0, so the first index of the largest value
\* is one of the occupied bins below NBINS-1.
OtsuArgmax(bins) ==
    LET C == {bins[p] : p \in DOMAIN bins} \cap (0..(NBINS - 2))
        var == Arr([i \in C |-> Variance12(bins, i)])
        Less(a, b) == a[1] * b[2] < b[1] * a[2]
    IN  CHOOSE i \in C :
            \A j \in C : /\ ~Less(var[i], var[j])
                         /\ j < i => Less(var[j], var[i])

threshold_otsu(image) ==
    LET lo == ArrMin(image)
        hi == ArrMax(image)
        bins == Arr([p \in DOMAIN image |-> BinOf(image[p], lo, hi)])
    IN  BinCenter(OtsuArgmax(bins), lo, hi)

\* ------------------------------------------------------------------------
\* skimage.morphology.remove_small_objects(ar, min_size, connectivity=1,
\* in_place=False) on a boolean array
\* ------------------------------------------------------------------------
\* generate_binary_structure(2, 1): the 4-neighbourhood
Adjacent(p, q) ==
    \/ p[1] = q[1] /\ Abs(p[2] - q[2]) = 1
    \/ p[2] = q[2] /\ Abs(p[1] - q[1]) = 1

RECURSIVE Flood(_, _)
Flood(ar, S) ==
    LET T == S \cup {q \in DOMAIN ar : ar[q] /\ \E s \in S : Adjacent(s, q)}
    IN  IF T = S THEN S ELSE Flood(ar, T)

\* raster index of a pixel (row-major)
Raster(ar, p) == (p[1] - 1) * NCols(ar) + p[2]

\* ndi.label(ar, selem): 0 on the background, one positive label per
\* connected component (here the raster index of its first pixel)
Label(ar) ==
    Arr([p \in DOMAIN ar |->
            IF ~ar[p] THEN 0
            ELSE LET C == Flood(ar, {p})
                     f == CHOOSE q \in C : \A r \in C : Raster(ar, q) <= Raster(ar, r)
                 IN  Raster(ar, f)])

remove_small_objects(ar, min_size) ==
    IF min_size = 0 THEN ar
    ELSE LET ccs == Label(ar)
             \* np.bincount(ccs.ravel())
             component_sizes(l) == Cardinality({q \in DOMAIN ar : ccs[q] = l})
             too_small(l) == component_sizes(l) < min_size
         IN  \* out[too_small_mask] = 0
             [p \in DOMAIN ar |-> IF too_small(ccs[p]) THEN FALSE ELSE ar[p]]

\* ------------------------------------------------------------------------
\* binarize_text: inputs
\* ------------------------------------------------------------------------
\* samples of the uint8 grayscale input (black, white)
GraySamples == {0, 255}

\* sigmas in tenths of a pixel; scale_fine and scale_mid are those of __main__
scale_fine == [sigma_surround |-> 100, sigma_center |-> 5]
scale_mid == [sigma_surround |-> 300, sigma_center |-> 10]
\* a narrow surround, still wider than the center
scale_narrow == [sigma_surround |-> 5, sigma_center |-> 2]
\* a scale with a sigma <= 0
scale_negative == [sigma_surround |-> -10, sigma_center |-> 5]

Scales == {scale_fine, scale_mid, scale_narrow, scale_negative}

ScaleLists == UNION {[1..n -> Scales] : n \in 0..MaxScales}

\* boldness 0, 0.9, 1.0 and 1.2
BoldnessValues == {Rat(0, 1), Rat(9, 10), Rat(1, 1), Rat(12, 10)}

\* remove_elements_smaller_than: None is <<>>, the integer n is <<n>>
None == <<>>
MinSizes == {None} \cup {<<n>> : n \in 0..MaxMinSize}

\* a local variable that is not bound yet
Unset == <<>>

VARIABLES
    pc,                            \* position in binarize_text
    image_array,                   \* arguments
    center_surround_sigma,
    boldness,
    remove_elements_smaller_than,
    verbose,
    image,                         \* locals
    ls_off_cs_cells,
    ls_surrounds,
    ls_centers,
    off_cs_sum,                    \* off_cs_cells after lines 174-176
    off_cs_cells,                  \* off_cs_cells after line 179
    binary_off_cs_cells,
    binary_off_cs_cells_denoise,
    norm_calls,                    \* min-max normalisations performed so far
    shows,                         \* plt.show() calls performed so far
    raised,                        \* the exception that ended the call, or "none"
    result,                        \* the returned array
    refiltered                     \* the filter step applied to the filtered mask

vars == <<pc, image_array, center_surround_sigma, boldness,
          remove_elements_smaller_than, verbose, image, ls_off_cs_cells,
          ls_surrounds, ls_centers, off_cs_sum, off_cs_cells,
          binary_off_cs_cells, binary_off_cs_cells_denoise, norm_calls, shows,
          raised, result, refiltered>>

args == <<image_array, center_surround_sigma, boldness,
          remove_elements_smaller_than, verbose>>

\* ------------------------------------------------------------------------
\* binarize_text: the steps as functions of their inputs
\* ------------------------------------------------------------------------
\* the keyword arguments of the call of get_off_center_surround
CallArgs == [invert |-> TRUE, min_max_norm |-> FALSE]

\* ls_off_cs_cells[0].copy(), then += ls_off_cs_cells[i]
RECURSIVE SumMaps(_, _)
SumMaps(ls, n) ==
    IF n = 1 THEN ls[1]
    ELSE LET acc == SumMaps(ls, n - 1)
         IN  Arr([p \in DOMAIN acc |-> RAdd(acc[p], ls[n][p])])

\* the comparison reversed
ThresholdStep_reversed(off, b) ==
    LET t == RMul(threshold_otsu(off), b)
    IN  Arr([p \in DOMAIN off |-> RLt(off[p], t)])

\* the threshold not scaled by boldness
ThresholdStep_ignoring_boldness(off, b) ==
    LET t == threshold_otsu(off)
    IN  Arr([p \in DOMAIN off |-> RGt(off[p], t)])

\* off_cs_cells > threshold_otsu(off_cs_cells) * boldness
ThresholdStep(off, b) ==
    LET t == RMul(threshold_otsu(off), b)
    IN  Arr([p \in DOMAIN off |-> RGt(off[p], t)])

\* remove_small_objects applied to the mask itself, without black<->white
FilterStep_no_inversion(binary, min_size) ==
    IF min_size # None
    THEN remove_small_objects(binary, min_size[1])
    ELSE binary

\* the result of remove_small_objects not inverted back
FilterStep_result_not_inverted(binary, min_size) ==
    IF min_size # None
    THEN remove_small_objects(Invert(binary), min_size[1])
    ELSE binary

\* ~remove_small_objects(ar=~binary_off_cs_cells, ...) or no filtering
FilterStep(binary, min_size) ==
    IF min_size # None
    THEN Invert(remove_small_objects(Invert(binary), min_size[1]))
    ELSE binary

\* ------------------------------------------------------------------------
\* binarize_text: the call, step by step
\* ------------------------------------------------------------------------
Init ==
    /\ pc = "entry"
    /\ image_array \in [Pixels -> GraySamples]
    /\ center_surround_sigma \in ScaleLists
    /\ boldness \in BoldnessValues
    /\ remove_elements_smaller_than \in MinSizes
    /\ verbose \in BOOLEAN
    /\ image = Unset
    /\ ls_off_cs_cells = <<>>
    /\ ls_surrounds = <<>>
    /\ ls_centers = <<>>
    /\ off_cs_sum = Unset
    /\ off_cs_cells = Unset
    /\ binary_off_cs_cells = Unset
    /\ binary_off_cs_cells_denoise = Unset
    /\ norm_calls = 0
    /\ shows = 0
    /\ raised = "none"
    /\ result = Unset
    /\ refiltered = Unset

\* lines 132-144: grayscale float image, empty lists
Entry ==
    /\ pc = "entry"
    /\ image' = img_as_float(image_array)
    /\ pc' = "scales"
    /\ UNCHANGED <<args, ls_off_cs_cells, ls_surrounds, ls_centers, off_cs_sum,
                   off_cs_cells, binary_off_cs_cells, binary_off_cs_cells_denoise,
                   norm_calls, shows, raised, result, refiltered>>

\* lines 145-171: one iteration of the loop over the scales
ScaleStep ==
    /\ pc = "scales"
    /\ Len(ls_off_cs_cells) < Len(center_surround_sigma)
    /\ LET scale == center_surround_sigma[Len(ls_off_cs_cells) + 1]
       IN  IF scale.sigma_surround < 0 \/ scale.sigma_center < 0
           THEN \* gaussian: "Sigma values less than zero are not valid"
                /\ raised' = "ValueError"
                /\ pc' = "raised"
                /\ UNCHANGED <<ls_off_cs_cells, ls_surrounds, ls_centers, norm_calls>>
           ELSE LET surround == gaussian(image, scale.sigma_surround)
                    center == gaussian(image, scale.sigma_center)
                IN  /\ ls_surrounds' = Append(ls_surrounds, surround)
                    /\ ls_centers' = Append(ls_centers, center)
                    /\ ls_off_cs_cells' =
                          Append(ls_off_cs_cells,
                                 get_off_center_surround(center, surround,
                                     CallArgs.invert, CallArgs.min_max_norm))
                    /\ norm_calls' = norm_calls + (IF CallArgs.min_max_norm THEN 1 ELSE 0)
                    /\ UNCHANGED <<pc, raised>>
    /\ UNCHANGED <<args, image, off_cs_sum, off_cs_cells, binary_off_cs_cells,
                   binary_off_cs_cells_denoise, shows, result, refiltered>>

\* lines 173-176: sum of the per-scale responses
Combine ==
    /\ pc = "scales"
    /\ Len(ls_off_cs_cells) = Len(center_surround_sigma)
    /\ IF Len(ls_off_cs_cells) = 0
       THEN \* ls_off_cs_cells[0] of an empty list
            /\ raised' = "IndexError"
            /\ pc' = "raised"
            /\ UNCHANGED off_cs_sum
       ELSE /\ off_cs_sum' = SumMaps(ls_off_cs_cells, Len(ls_off_cs_cells))
            /\ pc' = "normalize"
            /\ UNCHANGED raised
    /\ UNCHANGED <<args, image, ls_off_cs_cells, ls_surrounds, ls_centers,
                   off_cs_cells, binary_off_cs_cells, binary_off_cs_cells_denoise,
                   norm_calls, shows, result, refiltered>>

\* lines 178-180: min-max normalisation of the sum
Normalize ==
    /\ pc = "normalize"
    /\ off_cs_cells' = MinMaxNorm(off_cs_sum)
    /\ norm_calls' = norm_calls + 1
    /\ pc' = "threshold"
    /\ UNCHANGED <<args, image, ls_off_cs_cells, ls_surrounds, ls_centers,
                   off_cs_sum, binary_off_cs_cells, binary_off_cs_cells_denoise,
                   shows, raised, result, refiltered>>

\* lines 182-183: global threshold
Threshold ==
    /\ pc = "threshold"
    /\ IF HasNaN(off_cs_cells)
       THEN \* threshold_otsu: the histogram range [nan, nan] is not finite
            /\ raised' = "ValueError"
            /\ pc' = "raised"
            /\ UNCHANGED binary_off_cs_cells
       ELSE /\ binary_off_cs_cells' = ThresholdStep(off_cs_cells, boldness)
            /\ pc' = "filter"
            /\ UNCHANGED raised
    /\ UNCHANGED <<args, image, ls_off_cs_cells, ls_surrounds, ls_centers,
                   off_cs_sum, off_cs_cells, binary_off_cs_cells_denoise,
                   norm_calls, shows, result, refiltered>>

\* lines 185-194: morphological filtering
Filter ==
    /\ pc = "filter"
    /\ binary_off_cs_cells_denoise' =
          FilterStep(binary_off_cs_cells, remove_elements_smaller_than)
    /\ pc' = "verbose"
    /\ UNCHANGED <<args, image, ls_off_cs_cells, ls_surrounds, ls_centers,
                   off_cs_sum, off_cs_cells, binary_off_cs_cells, norm_calls,
                   shows, raised, result, refiltered>>

\* the figures shown whatever verbose is
Visualize_always ==
    /\ pc = "verbose"
    /\ shows' = shows + SHOW_CALLS
    /\ pc' = "return"
    /\ UNCHANGED <<args, image, ls_off_cs_cells, ls_surrounds, ls_centers,
                   off_cs_sum, off_cs_cells, binary_off_cs_cells,
                   binary_off_cs_cells_denoise, norm_calls, raised, result,
                   refiltered>>

\* lines 198-323: the figures of the verbose block
Visualize ==
    /\ pc = "verbose"
    /\ shows' = IF verbose THEN shows + SHOW_CALLS ELSE shows
    /\ pc' = "return"
    /\ UNCHANGED <<args, image, ls_off_cs_cells, ls_surrounds, ls_centers,
                   off_cs_sum, off_cs_cells, binary_off_cs_cells,
                   binary_off_cs_cells_denoise, norm_calls, raised, result,
                   refiltered>>

\* line 326
Return ==
    /\ pc = "return"
    /\ result' = binary_off_cs_cells_denoise
    /\ pc' = "done"
    /\ UNCHANGED <<args, image, ls_off_cs_cells, ls_surrounds, ls_centers,
                   off_cs_sum, off_cs_cells, binary_off_cs_cells,
                   binary_off_cs_cells_denoise, norm_calls, shows, raised,
                   refiltered>>

Next ==
    \/ Entry
    \/ ScaleStep
    \/ Combine
    \/ Normalize
    \/ Threshold
    \/ Filter
    \/ Visualize
    \/ Return

Spec == Init /\ [][Next]_vars

\* ------------------------------------------------------------------------
\* The filter step on its own: lines 185-194 entered with any thresholded
\* mask, and the same step applied once more to its result
\* ------------------------------------------------------------------------
InitFilter ==
    /\ pc = "filter"
    /\ image_array = Unset
    /\ center_surround_sigma = <<>>
    /\ boldness = Rat(1, 1)
    /\ remove_elements_smaller_than \in MinSizes
    /\ verbose = FALSE
    /\ image = Unset
    /\ ls_off_cs_cells = <<>>
    /\ ls_surrounds = <<>>
    /\ ls_centers = <<>>
    /\ off_cs_sum = Unset
    /\ off_cs_cells = Unset
    /\ binary_off_cs_cells \in [GridPixels -> BOOLEAN]
    /\ binary_off_cs_cells_denoise = Unset
    /\ norm_calls = 0
    /\ shows = 0
    /\ raised = "none"
    /\ result = Unset
    /\ refiltered = Unset

Refilter ==
    /\ pc = "verbose"
    /\ refiltered = Unset
    /\ refiltered' = FilterStep(binary_off_cs_cells_denoise, remove_elements_smaller_than)
    /\ UNCHANGED <<pc, args, image, ls_off_cs_cells, ls_surrounds, ls_centers,
                   off_cs_sum, off_cs_cells, binary_off_cs_cells,
                   binary_off_cs_cells_denoise, norm_calls, shows, raised, result>>

NextFilter ==
    \/ Filter
    \/ Refilter

SpecFilter == InitFilter /\ [][NextFilter]_vars

\* ------------------------------------------------------------------------
\* Vocabulary of the properties
\* ------------------------------------------------------------------------
Thresholded == pc \in {"filter", "verbose", "return", "done"}

ValidScale(sc) == sc.sigma_center > 0 /\ sc.sigma_surround > 0

InvalidParameters ==
    \/ Len(center_surround_sigma) = 0
    \/ \E i \in DOMAIN center_surround_sigma : ~ValidScale(center_surround_sigma[i])
    \/ RLe(boldness, FromInt(0))

\* a white page with exactly one black pixel
OneDarkMark ==
    /\ Cardinality({p \in Pixels : image_array[p] = 0}) = 1
    /\ \A p \in Pixels : image_array[p] \in {0, 255}

\* the OFF activation summed over the scales: the responses before inversion
TotalActivation ==
    SumMaps([i \in DOMAIN ls_centers |->
                get_off_center_surround(ls_centers[i], ls_surrounds[i], FALSE, FALSE)],
            Len(ls_centers))

\* the maximal 4-connected group of pixels of value val that contains p
RECURSIVE GroupFrom(_, _, _)
GroupFrom(mask, val, S) ==
    LET T == S \cup {q \in DOMAIN mask : mask[q] = val /\ \E s \in S : Adjacent(s, q)}
    IN  IF T = S THEN S ELSE GroupFrom(mask, val, T)

Group(mask, val, p) == GroupFrom(mask, val, {p})

\* the mask binarize_text returns with boldness b, everything else as in this call
FinalMask(b) ==
    FilterStep(ThresholdStep(off_cs_cells, b), remove_elements_smaller_than)

\* a map of numbers that are all equal
IsConstantMap(m) ==
    /\ ~HasNaN(m)
    /\ \A p, q \in DOMAIN m : m[p] = m[q]

InUnit(x) == RLe(FromInt(0), x) /\ RLe(x, FromInt(1))

\* every blurred value is a number >= 0 (the samples are >= 0 and so are the
\* weights), which is what RDiv relies on
SurroundsNonNegative ==
    \A i \in DOMAIN ls_surrounds :
        \A p \in Pixels :
            /\ RLe(FromInt(0), ls_surrounds[i][p])
            /\ RLe(FromInt(0), ls_centers[i][p])

\* ------------------------------------------------------------------------
\* C1
\* ------------------------------------------------------------------------
\* C1 as stated: on a light page with a dark mark, the dark-mark pixels are
\* the true pixels of the returned mask.
C1_DarkMarkIsTrue ==
    (pc = "done" /\ ~InvalidParameters /\ OneDarkMark)
        => \A p \in Pixels : image_array[p] = 0 => result[p]

\* C1 amended: false is foreground/text, true is background.  In the
\* thresholded mask every pixel of maximal OFF activation (the strongest
\* light decrement) is false, a pixel whose OFF activation is at least that
\* of a false pixel is false, and a false pixel of the returned mask was
\* false in the thresholded mask.
C1_FalseIsText ==
    Thresholded =>
        LET act == TotalActivation
            top == ArrMax(act)
        IN  /\ \A p \in Pixels : act[p] = top => ~binary_off_cs_cells[p]
            /\ \A p, q \in Pixels :
                  (RLe(act[q], act[p]) /\ ~binary_off_cs_cells[q])
                      => ~binary_off_cs_cells[p]
            /\ pc = "done" => \A p \in Pixels : ~result[p] => ~binary_off_cs_cells[p]

\* a returned mask of a light page with one dark mark: the mark is the only
\* false pixel
C1_Witness ==
    /\ pc = "done"
    /\ OneDarkMark
    /\ center_surround_sigma = <<scale_fine>>
    /\ boldness = Rat(1, 1)
    /\ \A p \in Pixels : result[p] <=> image_array[p] # 0

\* ------------------------------------------------------------------------
\* C2 (specification SpecFilter)
\* ------------------------------------------------------------------------
\* C2 as stated: a pixel is true after the filter iff it was true and its
\* 4-connected group of true pixels has at least n pixels (so no false pixel
\* becomes true).
C2_SmallTrueGroupsRemoved ==
    (pc = "verbose" /\ remove_elements_smaller_than # None) =>
        LET n == remove_elements_smaller_than[1]
        IN  \A p \in DOMAIN binary_off_cs_cells :
                binary_off_cs_cells_denoise[p] <=>
                    /\ binary_off_cs_cells[p]
                    /\ Cardinality(Group(binary_off_cs_cells, TRUE, p)) >= n

\* C2 amended: a pixel is false after the filter iff it was false and its
\* maximal 4-connected group of false pixels has at least n pixels; every
\* group of false pixels with fewer than n pixels becomes true, and no true
\* pixel becomes false.
C2_SmallFalseGroupsRemoved ==
    (pc = "verbose" /\ remove_elements_smaller_than # None) =>
        LET n == remove_elements_smaller_than[1]
        IN  /\ \A p \in DOMAIN binary_off_cs_cells :
                  ~binary_off_cs_cells_denoise[p] <=>
                      /\ ~binary_off_cs_cells[p]
                      /\ Cardinality(Group(binary_off_cs_cells, FALSE, p)) >= n
            /\ \A p \in DOMAIN binary_off_cs_cells :
                  binary_off_cs_cells[p] => binary_off_cs_cells_denoise[p]

\* a filtered mask where a small group of false pixels was removed, a group
\* of n false pixels was kept and a single true pixel was kept
C2_Witness ==
    /\ pc = "verbose"
    /\ remove_elements_smaller_than = <<2>>
    /\ \E p, q, r \in DOMAIN binary_off_cs_cells :
          /\ ~binary_off_cs_cells[p]
          /\ Cardinality(Group(binary_off_cs_cells, FALSE, p)) = 1
          /\ binary_off_cs_cells_denoise[p]
          /\ ~binary_off_cs_cells[q]
          /\ Cardinality(Group(binary_off_cs_cells, FALSE, q)) = 2
          /\ ~binary_off_cs_cells_denoise[q]
          /\ binary_off_cs_cells[r]
          /\ Cardinality(Group(binary_off_cs_cells, TRUE, r)) = 1
          /\ binary_off_cs_cells_denoise[r]

\* ------------------------------------------------------------------------
\* C3 (specification SpecFilter)
\* ------------------------------------------------------------------------
\* C3: the filter step applied to an already filtered mask, with the same
\* min_size, returns the filtered mask.
C3_FilterIdempotent ==
    (pc = "verbose" /\ refiltered # Unset) => refiltered = binary_off_cs_cells_denoise

\* the filter was applied twice and its first application changed the mask
C3_Witness ==
    /\ pc = "verbose"
    /\ refiltered # Unset
    /\ remove_elements_smaller_than # None
    /\ binary_off_cs_cells_denoise # binary_off_cs_cells
    /\ \E p \in DOMAIN refiltered : ~refiltered[p]

\* ------------------------------------------------------------------------
\* C4
\* ------------------------------------------------------------------------
\* C4 as stated: with a larger boldness the returned mask never has fewer
\* true pixels.
C4_TrueCountGrowsWithBoldness ==
    pc = "done" =>
        \A b2 \in BoldnessValues :
            RLt(boldness, b2) => TrueCount(FinalMask(b2)) >= TrueCount(result)

\* C4 amended: with a larger boldness the returned mask never has fewer
\* foreground pixels, the foreground pixels being the false ones: the false
\* pixels of the mask for b1 are false in the mask for every b2 > b1, so the
\* count of false pixels never shrinks and the count of true pixels never
\* grows.
C4_TextGrowsWithBoldness ==
    pc = "done" =>
        \A b2 \in BoldnessValues :
            RLt(boldness, b2) =>
                LET m2 == FinalMask(b2)
                IN  /\ \A p \in Pixels : ~result[p] => ~m2[p]
                    /\ FalseCount(m2) >= FalseCount(result)
                    /\ TrueCount(m2) <= TrueCount(result)

\* a returned mask, filtered, that has strictly more false pixels when the
\* boldness is raised from 0.9 to 1.2
C4_Witness ==
    /\ pc = "done"
    /\ boldness = Rat(9, 10)
    /\ remove_elements_smaller_than # None
    /\ FalseCount(FinalMask(Rat(12, 10))) > FalseCount(result)

\* ------------------------------------------------------------------------
\* C5
\* ------------------------------------------------------------------------
\* C5: a pixel of the thresholded mask is true iff its combined response is
\* strictly greater than otsu_threshold * boldness, and for the same combined
\* response a larger boldness never gives more true pixels.
C5_ThresholdRule ==
    Thresholded =>
        LET t == threshold_otsu(off_cs_cells)
        IN  /\ \A p \in Pixels :
                  binary_off_cs_cells[p] <=> ~RLe(off_cs_cells[p], RMul(t, boldness))
            /\ \A b2 \in BoldnessValues :
                  RLt(boldness, b2) =>
                      TrueCount(ThresholdStep(off_cs_cells, b2))
                          <= TrueCount(binary_off_cs_cells)

\* a thresholded mask for boldness 0.9 that loses true pixels at boldness 1.2
C5_Witness ==
    /\ pc = "filter"
    /\ boldness = Rat(9, 10)
    /\ TrueCount(ThresholdStep(off_cs_cells, Rat(12, 10))) < TrueCount(binary_off_cs_cells)

\* ------------------------------------------------------------------------
\* C6
\* ------------------------------------------------------------------------
\* C6: a constant summed response map is detected before it is normalised:
\* the call ends with DegenerateImage or an all-false mask, and no NaN
\* reaches the threshold step.
C6_DegenerateDetected ==
    (~InvalidParameters /\ off_cs_sum # Unset /\ IsConstantMap(off_cs_sum)) =>
        /\ pc = "threshold" => ~HasNaN(off_cs_cells)
        /\ pc = "raised" => raised = "DegenerateImage"
        /\ pc = "done" => \A p \in Pixels : ~result[p]

\* ------------------------------------------------------------------------
\* C7
\* ------------------------------------------------------------------------
\* C7: with an empty scale list, a sigma <= 0 or a boldness <= 0 the call
\* fails with InvalidParameter at its entry: it runs no later step and ends
\* with no other error.
C7_ParametersValidated ==
    InvalidParameters =>
        /\ pc \in {"entry", "raised"}
        /\ pc = "raised" => raised = "InvalidParameter"

\* ------------------------------------------------------------------------
\* C8
\* ------------------------------------------------------------------------
\* C8 as stated: the call performs no display action, whatever its arguments.
C8_NeverShows == shows = 0

\* C8 amended: the call performs no display action unless verbose is True;
\* with verbose True it shows its figures (SHOW_CALLS calls of plt.show())
\* after the filter step and before it returns.
C8_ShowsOnlyWhenVerbose ==
    /\ ~verbose => shows = 0
    /\ shows # 0 => pc \in {"return", "done"}
    /\ pc \in {"return", "done"} /\ verbose => shows = SHOW_CALLS

\* a call with verbose True that returned a mask after showing its figures
C8_Witness ==
    /\ pc = "done"
    /\ verbose
    /\ shows = SHOW_CALLS
    /\ result = binary_off_cs_cells_denoise

\* ------------------------------------------------------------------------
\* C9
\* ------------------------------------------------------------------------
\* the ordering of C9 alone: the responses are stored as computed with
\* min_max_norm disabled, nothing is normalised before the sum is complete,
\* and from the threshold step on exactly one normalisation has run
NormalizedOnceAfterSum ==
    /\ \A i \in DOMAIN ls_off_cs_cells :
          ls_off_cs_cells[i] =
              get_off_center_surround(ls_centers[i], ls_surrounds[i], TRUE, FALSE)
    /\ pc \in {"entry", "scales", "normalize"} => norm_calls = 0
    /\ pc \in {"threshold", "filter", "verbose", "return", "done"} => norm_calls = 1
    /\ pc = "normalize" =>
          off_cs_sum = SumMaps(ls_off_cs_cells, Len(center_surround_sigma))

\* C9: no per-scale map is normalised, the maps are summed, the sum is
\* normalised exactly once before thresholding, and when the sum is not
\* constant the normalised map has minimum 0 and maximum 1.
C9_NormalizedSumSpansUnit ==
    /\ NormalizedOnceAfterSum
    /\ (/\ pc = "threshold"
        /\ ~InvalidParameters
        /\ \E p, q \in Pixels : off_cs_sum[p] # off_cs_sum[q]) =>
          /\ ArrMin(off_cs_cells) = FromInt(0)
          /\ ArrMax(off_cs_cells) = FromInt(1)

\* ------------------------------------------------------------------------
\* C10
\* ------------------------------------------------------------------------
\* C10: where surround + max(surround - center, 0) is 0 the response before
\* inversion is 0 (1 after inversion), and every response lies in [0,1].
C10_DivisionGuarded ==
    ~InvalidParameters => \A i \in DOMAIN ls_off_cs_cells :
        \A p \in Pixels :
            LET s == ls_surrounds[i][p]
                c == ls_centers[i][p]
                d == IF RLt(RSub(s, c), FromInt(0)) THEN FromInt(0) ELSE RSub(s, c)
            IN  /\ InUnit(ls_off_cs_cells[i][p])
                /\ RAdd(s, d) = FromInt(0) => ls_off_cs_cells[i][p] = FromInt(1)

====
